---- MODULE Spec2Model ----
(***************************************************************************)
(* Xpenseit: normalisation of extracted receipt fields, currency           *)
(* conversion, the two-currency totals and the layout of the PDF report    *)
(* and of the spreadsheet export.                                          *)
(*                                                                         *)
(* Conventions of the model.                                               *)
(*  - A Python str is a sequence of characters; a character is a one-token *)
(*    TLA+ string ("SUP2" stands for U+00B2, superscript two).             *)
(*  - An Optional value is Absent or Some(v).                              *)
(*  - A float is an exact rational [n, d] in lowest terms: rounding of     *)
(*    binary floating point is not modelled.                               *)
(*  - A call that raises has the outcome Raised(exception name).           *)
(***************************************************************************)
EXTENDS Integers, Sequences, FiniteSets, TLC

\* Largest number of entries of a working set.
MaxEntries == 2
\* Largest length of the raw strings enumerated for the normalisers.
MaxStrLen == 3

----------------------------------------------------------------------------
\* Optional values and call outcomes

Absent == [has |-> FALSE]
Some(v) == [has |-> TRUE, val |-> v]

Returned(v) == [ok |-> TRUE, val |-> v]
Raised(e) == [ok |-> FALSE, err |-> e]

----------------------------------------------------------------------------
\* Strings

\* The characters of the model, in code point order.
CodeOrder ==
  << " ", "$", ",", "-", ".", "/",
     "0", "1", "2", "3", "4", "5", "6", "7", "8", "9", ":",
     "D", "E", "M", "N", "R", "S", "U", "X",
     "d", "e", "m", "n", "r", "s", "u", "x", "SUP2" >>

Ord(c) == CHOOSE i \in 1..Len(CodeOrder) : CodeOrder[i] = c

AsciiDigits == <<"0", "1", "2", "3", "4", "5", "6", "7", "8", "9">>

IsDecimal(c) == \E i \in 1..Len(AsciiDigits) : AsciiDigits[i] = c

DigitVal(c) == (CHOOSE i \in 1..Len(AsciiDigits) : AsciiDigits[i] = c) - 1

\* str.isdigit() on one character: the decimal digits and the characters of
\* Numeric_Type=Digit, of which the superscript digits are not decimal.
IsDigitChar(c) == IsDecimal(c) \/ c = "SUP2"

IsSpace(c) == c = " "

UpperChar(c) ==
  CASE c = "d" -> "D" [] c = "e" -> "E" [] c = "m" -> "M" [] c = "n" -> "N"
    [] c = "r" -> "R" [] c = "s" -> "S" [] c = "u" -> "U" [] c = "x" -> "X"
    [] OTHER -> c

Upper(s) == [i \in 1..Len(s) |-> UpperChar(s[i])]

RECURSIVE LStrip(_)
LStrip(s) == IF s # <<>> /\ IsSpace(Head(s)) THEN LStrip(Tail(s)) ELSE s

RECURSIVE RStrip(_)
RStrip(s) ==
  IF s # <<>> /\ IsSpace(s[Len(s)]) THEN RStrip(SubSeq(s, 1, Len(s) - 1)) ELSE s

Strip(s) == RStrip(LStrip(s))

\* str.isdigit(): non-empty and every character a digit.
IsDigit(s) == s # <<>> /\ \A i \in 1..Len(s) : IsDigitChar(s[i])

\* str.split(sep): the segments between the occurrences of sep.
RECURSIVE SplitAcc(_, _, _)
SplitAcc(s, sep, cur) ==
  IF s = <<>> THEN <<cur>>
  ELSE IF Head(s) = sep THEN <<cur>> \o SplitAcc(Tail(s), sep, <<>>)
  ELSE SplitAcc(Tail(s), sep, Append(cur, Head(s)))

Split(s, sep) == SplitAcc(s, sep, <<>>)

\* str.replace(c, ""): the string without the character c.
RECURSIVE Remove(_, _)
Remove(s, c) ==
  IF s = <<>> THEN <<>>
  ELSE IF Head(s) = c THEN Remove(Tail(s), c)
  ELSE <<Head(s)>> \o Remove(Tail(s), c)

\* s < t for str: lexicographic by code point.
RECURSIVE StrLess(_, _)
StrLess(s, t) ==
  IF t = <<>> THEN FALSE
  ELSE IF s = <<>> THEN TRUE
  ELSE IF Head(s) # Head(t) THEN Ord(Head(s)) < Ord(Head(t))
  ELSE StrLess(Tail(s), Tail(t))

\* int(s) of a string that passed isdigit(): raises on a digit that is not
\* decimal.
RECURSIVE DecimalValue(_, _)
DecimalValue(s, acc) ==
  IF s = <<>> THEN acc ELSE DecimalValue(Tail(s), 10 * acc + DigitVal(Head(s)))

IntOf(s) ==
  IF \A i \in 1..Len(s) : IsDecimal(s[i])
  THEN Returned(DecimalValue(s, 0))
  ELSE Raised("ValueError")

\* str(n) of an int n >= 0.
RECURSIVE IntToStr(_)
IntToStr(n) ==
  IF n < 10 THEN <<AsciiDigits[n + 1]>>
  ELSE Append(IntToStr(n \div 10), AsciiDigits[(n % 10) + 1])

\* f"{n:02d}" of an int n >= 0.
Pad2(n) == IF n < 10 THEN <<"0">> \o IntToStr(n) ELSE IntToStr(n)

----------------------------------------------------------------------------
\* Rational arithmetic standing for float arithmetic

RECURSIVE Gcd(_, _)
Gcd(a, b) == IF b = 0 THEN a ELSE Gcd(b, a % b)

Abs(a) == IF a < 0 THEN -a ELSE a

\* n/d in lowest terms, d > 0.
Rat(n, d) ==
  LET s == IF d < 0 THEN -1 ELSE 1
      g == Gcd(Abs(n), Abs(d))
  IN [n |-> (s * n) \div g, d |-> (s * d) \div g]

RatInt(n) == [n |-> n, d |-> 1]
Zero == RatInt(0)
IsZero(a) == a.n = 0

RatAdd(a, b) == Rat(a.n * b.d + b.n * a.d, a.d * b.d)
RatMul(a, b) == Rat(a.n * b.n, a.d * b.d)
\* a / b, for b # 0.
RatDiv(a, b) == Rat(a.n * b.d, a.d * b.n)

\* round(a), ties to even.
RoundHalfEven(a) ==
  LET q == a.n \div a.d
      r == a.n % a.d
  IN IF 2 * r < a.d THEN q
     ELSE IF 2 * r > a.d THEN q + 1
     ELSE IF q % 2 = 0 THEN q ELSE q + 1

\* f"{x:,.2f} CCY": the amount in hundredths and the suffix (the thousands
\* separators are layout of the same number).
Fmt2(x, suffix) == [cents |-> RoundHalfEven(RatMul(x, RatInt(100))), suffix |-> suffix]

----------------------------------------------------------------------------
\* services/openai_vision.py: the field normalisers

\* A raw value of the reply: null, a string, or a non-negative integer.
RNull == [t |-> "null"]
RStr(s) == [t |-> "str", s |-> s]
RInt(n) == [t |-> "int", n |-> n]

\* `not value`
Falsy(v) ==
  \/ v.t = "null"
  \/ v.t = "str" /\ v.s = <<>>
  \/ v.t = "int" /\ v.n = 0

\* str(value), for a value that is not null.
StrOf(v) == IF v.t = "str" THEN v.s ELSE IntToStr(v.n)

_norm_str(value) ==
  IF value.t = "null" THEN Absent
  ELSE LET s == Strip(StrOf(value))
       IN IF s = <<>> THEN Absent ELSE Some(s)

RECURSIVE Pow10(_)
Pow10(k) == IF k = 0 THEN 1 ELSE 10 * Pow10(k - 1)

AllDecimal(s) == \A i \in 1..Len(s) : IsDecimal(s[i])

Unsigned(s) == IF s # <<>> /\ Head(s) = "-" THEN Tail(s) ELSE s

\* float(s): surrounding blanks, a sign, digits with an optional fraction and
\* an optional exponent. (inf, nan and digit-group underscores cannot be
\* written with the characters of the model.)
ParseFloat(s0) ==
  LET s == Upper(Strip(s0))
      me == Split(s, "E")
      mant == Unsigned(me[1])
      neg == me[1] # <<>> /\ Head(me[1]) = "-"
      pf == Split(mant, ".")
      ip == pf[1]
      fp == IF Len(pf) = 2 THEN pf[2] ELSE <<>>
      ex == IF Len(me) = 2 THEN Unsigned(me[2]) ELSE <<"0">>
      exneg == Len(me) = 2 /\ me[2] # <<>> /\ Head(me[2]) = "-"
      wellFormed ==
        /\ Len(me) <= 2 /\ Len(pf) <= 2
        /\ AllDecimal(ip) /\ AllDecimal(fp) /\ ip \o fp # <<>>
        /\ ex # <<>> /\ AllDecimal(ex)
      digits == DecimalValue(ip \o fp, 0)
      m == Rat(IF neg THEN -digits ELSE digits, Pow10(Len(fp)))
      e == Pow10(DecimalValue(ex, 0))
  IN IF ~wellFormed THEN Raised("ValueError")
     ELSE Returned(IF exneg THEN RatDiv(m, RatInt(e)) ELSE RatMul(m, RatInt(e)))

_norm_float(value) ==
  IF value.t = "null" THEN Absent
  ELSE LET r == ParseFloat(Remove(StrOf(value), ","))
       IN IF r.ok THEN Some(r.val) ELSE Absent

_norm_currency(value) ==
  IF Falsy(value) THEN <<"U", "S", "D">>
  ELSE LET s == Strip(Upper(StrOf(value)))
       IN IF Len(s) = 1 THEN <<"U", "S", "D">> ELSE s

\* Outcome of _norm_time: the returned Optional[str], or the exception.
_norm_time(value) ==
  IF Falsy(value) THEN Returned(Absent)
  ELSE LET s == Strip(StrOf(value))
           parts == Split(s, ":")
       IN IF Len(parts) >= 2 /\ IsDigit(parts[1]) /\ IsDigit(parts[2])
          THEN LET h == IntOf(parts[1])
                   m == IntOf(parts[2])
               IN IF ~h.ok THEN h
                  ELSE IF ~m.ok THEN m
                  ELSE Returned(Some(Pad2(h.val % 24) \o <<":">> \o Pad2(m.val % 60)))
          ELSE Returned(Absent)

\* Calendar dates

IsLeap(y) == (y % 4 = 0 /\ y % 100 # 0) \/ y % 400 = 0

DaysInMonth(y, m) ==
  IF m = 2 THEN (IF IsLeap(y) THEN 29 ELSE 28)
  ELSE IF m \in {4, 6, 9, 11} THEN 30 ELSE 31

\* date(y, m, d), which raises on a date that does not exist.
MakeDate(y, m, d) ==
  IF y >= 1 /\ m \in 1..12 /\ d >= 1 /\ d <= DaysInMonth(y, m)
  THEN Returned([y |-> y, m |-> m, d |-> d])
  ELSE Raised("ValueError")

\* The strptime directives %Y (four digits) and %m, %d (one or two digits,
\* not zero).
MatchesY(s) == Len(s) = 4 /\ AllDecimal(s)
MatchesMD(s, hi) ==
  /\ Len(s) \in {1, 2} /\ AllDecimal(s)
  /\ DecimalValue(s, 0) \in 1..hi

\* datetime.strptime(s, fmt).date() for the formats of three numeric fields
\* joined by sep; order is the position of year, month and day.
Strptime(s, sep, order) ==
  LET p == Split(s, sep)
  IN IF /\ Len(p) = 3
        /\ MatchesY(p[order.y]) /\ MatchesMD(p[order.m], 12) /\ MatchesMD(p[order.d], 31)
     THEN MakeDate(DecimalValue(p[order.y], 0), DecimalValue(p[order.m], 0),
                   DecimalValue(p[order.d], 0))
     ELSE Raised("ValueError")

\* datetime.fromisoformat(s).date() of a date-only string, YYYY-MM-DD or
\* YYYYMMDD. (Strings with a time part or a week date are not drawn.)
FromIsoFormat(s) ==
  LET p == Split(s, "-")
  IN IF Len(s) = 10 /\ Len(p) = 3 /\ MatchesY(p[1])
        /\ Len(p[2]) = 2 /\ AllDecimal(p[2]) /\ Len(p[3]) = 2 /\ AllDecimal(p[3])
     THEN MakeDate(DecimalValue(p[1], 0), DecimalValue(p[2], 0), DecimalValue(p[3], 0))
     ELSE IF Len(s) = 8 /\ AllDecimal(s)
     THEN MakeDate(DecimalValue(SubSeq(s, 1, 4), 0), DecimalValue(SubSeq(s, 5, 6), 0),
                   DecimalValue(SubSeq(s, 7, 8), 0))
     ELSE Raised("ValueError")

\* The fallback formats, in the order they are tried.
DateFormats ==
  << [sep |-> "-", order |-> [y |-> 1, m |-> 2, d |-> 3]],
     [sep |-> "/", order |-> [y |-> 3, m |-> 2, d |-> 1]],
     [sep |-> "/", order |-> [y |-> 3, m |-> 1, d |-> 2]],
     [sep |-> "-", order |-> [y |-> 3, m |-> 2, d |-> 1]],
     [sep |-> "-", order |-> [y |-> 3, m |-> 1, d |-> 2]] >>

RECURSIVE TryFormats(_, _)
TryFormats(s, i) ==
  IF i > Len(DateFormats) THEN Absent
  ELSE LET r == Strptime(s, DateFormats[i].sep, DateFormats[i].order)
       IN IF r.ok THEN Some(r.val) ELSE TryFormats(s, i + 1)

_norm_date(value) ==
  IF Falsy(value) THEN Absent
  ELSE LET r == FromIsoFormat(StrOf(value))
       IN IF r.ok THEN Some(r.val) ELSE TryFormats(StrOf(value), 1)

----------------------------------------------------------------------------
\* services/openai_vision.py: extract_expense_fields

EmptyDict == [k \in {} |-> RNull]

\* A parsed JSON value: an object (a dict of raw values) or anything else.
JDict(d) == [t |-> "dict", d |-> d]
JOther == [t |-> "other"]

\* dict.get(key)
Get(data, key) == IF key \in DOMAIN data THEN data[key] ELSE RNull

\* The dict the try block leaves in `data`. The reply of the collaborator is
\*   call    "ok" or "error" (the request fails or times out);
\*   content Absent, or Some(text) where text is described by what the JSON
\*           parser makes of it: loads (json.loads of the whole text), brace
\*           (a "{" is followed by a later "}") and inner (json.loads of the
\*           text between them).
ReplyData(reply) ==
  IF reply.call = "error" THEN EmptyDict
  ELSE IF ~reply.content.has THEN EmptyDict
  ELSE LET text == reply.content.val
       IN IF text.loads.ok
          THEN (IF text.loads.val.t = "dict" THEN text.loads.val.d ELSE EmptyDict)
          ELSE IF ~text.brace THEN EmptyDict
          ELSE IF ~text.inner.ok THEN EmptyDict
          ELSE IF text.inner.val.t = "dict" THEN text.inner.val.d ELSE EmptyDict

\* Outcome of extract_expense_fields: the record, or the exception that
\* leaves the function.
extract_expense_fields(reply, file_name) ==
  IF reply.client = "error" THEN Raised("OpenAIError")
  ELSE LET data == ReplyData(reply)
           time == _norm_time(Get(data, "transaction_time"))
       IN IF ~time.ok THEN time
          ELSE Returned(
            [ merchant_name    |-> _norm_str(Get(data, "merchant_name")),
              transaction_date |-> _norm_date(Get(data, "transaction_date")),
              transaction_time |-> time.val,
              total_amount     |-> _norm_float(Get(data, "total_amount")),
              currency_code    |-> _norm_currency(Get(data, "currency_code")),
              payment_method   |-> _norm_str(Get(data, "payment_method")),
              category         |-> _norm_str(Get(data, "category")),
              source_name      |-> file_name ])

----------------------------------------------------------------------------
\* services/currency.py

USD == <<"U", "S", "D">>
MXN == <<"M", "X", "N">>
EUR == <<"E", "U", "R">>

\* The table fetch_rates returns. response is Absent when the request or the
\* decoding of its body fails, else Some(the "rates" object of the body).
fetch_rates(base, response) ==
  IF response.has
  THEN [c \in DOMAIN response.val \cup {base} |->
          IF c = base THEN RatInt(1) ELSE response.val[c]]
  ELSE IF base = USD THEN (USD :> RatInt(1)) @@ (MXN :> RatInt(18))
  ELSE IF base = MXN THEN (USD :> Rat(1, 18)) @@ (MXN :> RatInt(1))
  ELSE (base :> RatInt(1))

\* Outcome of convert: the returned amount, or the exception.
convert(amount, from_ccy, to_ccy, rates) ==
  LET f == Upper(from_ccy)
      t == Upper(to_ccy)
  IN IF f \notin DOMAIN rates \/ t \notin DOMAIN rates THEN Returned(amount)
     ELSE IF f = t THEN Returned(amount)
     ELSE IF IsZero(rates[f]) THEN Raised("ZeroDivisionError")
     ELSE Returned(RatMul(RatDiv(amount, rates[f]), rates[t]))

----------------------------------------------------------------------------
\* models.py

\* ReportHeader: the fields the totals and the exports read. The validation
\* of the model admits base currencies of three capitals and a rate >= 0.0001.
ReportHeader(base_currency, fx_usd_to_mxn) ==
  [base_currency |-> base_currency, fx_usd_to_mxn |-> fx_usd_to_mxn]

\* ExpenseEntry: the fields the ordering, the totals and the receipt sections
\* read (the fields that are only printed are left out). image stands for
\* _image_bytes: "none" (no bytes), "ok" (a decodable image), "bad" (bytes
\* the image library cannot decode).
ExpenseEntry(id, transaction_date, transaction_time, total_amount, currency_code, image) ==
  [ id |-> id, transaction_date |-> transaction_date,
    transaction_time |-> transaction_time, total_amount |-> total_amount,
    currency_code |-> currency_code, image |-> image ]

\* A cell of the "Total" column: a number, or the empty string.
NumCell(x) == [t |-> "num", v |-> x]
EmptyStrCell == [t |-> "str", s |-> <<>>]

to_row(e) ==
  [ ID |-> e.id,
    Date |-> e.transaction_date,
    Time |-> IF e.transaction_time.has THEN e.transaction_time.val ELSE <<>>,
    Total |-> IF e.total_amount.has THEN NumCell(e.total_amount.val) ELSE EmptyStrCell,
    Currency |-> e.currency_code ]

----------------------------------------------------------------------------
\* services/report_pdf.py

\* date.max
DateMax == [y |-> 9999, m |-> 12, d |-> 31]

DateLess(a, b) ==
  \/ a.y < b.y
  \/ a.y = b.y /\ a.m < b.m
  \/ a.y = b.y /\ a.m = b.m /\ a.d < b.d

\* The sort key of an entry: (date or date.max, time or "99:99").
SortKey(e) ==
  [ date |-> IF e.transaction_date.has THEN e.transaction_date.val ELSE DateMax,
    time |-> IF e.transaction_time.has /\ e.transaction_time.val # <<>>
             THEN e.transaction_time.val
             ELSE <<"9", "9", ":", "9", "9">> ]

\* k1 < k2 for the key tuples.
KeyLess(k1, k2) ==
  \/ DateLess(k1.date, k2.date)
  \/ k1.date = k2.date /\ StrLess(k1.time, k2.time)

\* sorted(entries, key=...): stable, so an entry goes behind the entries
\* already placed whose key is not greater.
RECURSIVE InsertSorted(_, _)
InsertSorted(s, e) ==
  IF s = <<>> THEN <<e>>
  ELSE IF KeyLess(SortKey(e), SortKey(Head(s))) THEN <<e>> \o s
  ELSE <<Head(s)>> \o InsertSorted(Tail(s), e)

RECURSIVE SortedFrom(_, _)
SortedFrom(entries, acc) ==
  IF entries = <<>> THEN acc
  ELSE SortedFrom(Tail(entries), InsertSorted(acc, Head(entries)))

sorted_entries(entries) == SortedFrom(entries, <<>>)

\* The rows of the expense table below its heading row: enumerate from 1.
\* entry names the entry a row was rendered from.
ExpenseRows(sorted) ==
  [ idx \in 1..Len(sorted) |->
      [ entry |-> sorted[idx].id,
        date |-> sorted[idx].transaction_date,
        time |-> IF sorted[idx].transaction_time.has
                 THEN sorted[idx].transaction_time.val ELSE <<>>,
        total |-> sorted[idx].total_amount,
        currency |-> sorted[idx].currency_code,
        href |-> idx ] ]

\* The subtotal as it would be were the codes compared without .upper().
RECURSIVE SumAmounts_CaseSensitive(_, _)
SumAmounts_CaseSensitive(entries, code) ==
  IF entries = <<>> THEN Zero
  ELSE LET e == Head(entries)
           x == IF e.currency_code = code
                THEN (IF e.total_amount.has THEN e.total_amount.val ELSE Zero)
                ELSE Zero
       IN RatAdd(x, SumAmounts_CaseSensitive(Tail(entries), code))

\* sum((e.total_amount or 0.0) for e in entries if (e.currency_code or
\* "").upper() == code)
RECURSIVE SumAmounts(_, _)
SumAmounts(entries, code) ==
  IF entries = <<>> THEN Zero
  ELSE LET e == Head(entries)
           x == IF Upper(e.currency_code) = code
                THEN (IF e.total_amount.has THEN e.total_amount.val ELSE Zero)
                ELSE Zero
       IN RatAdd(x, SumAmounts(Tail(entries), code))

\* The totals as they would be were the rate read as units of the other
\* currency per unit of the header's base currency.
PdfTotals_BaseFirst(header, entries, usd_to_mxn) ==
  LET usd_sub == SumAmounts(entries, <<"U", "S", "D">>)
      mxn_sub == SumAmounts(entries, <<"M", "X", "N">>)
      div(x) == IF IsZero(usd_to_mxn) THEN Zero ELSE RatDiv(x, usd_to_mxn)
      mul(x) == RatMul(x, usd_to_mxn)
      usdBase == header.base_currency = <<"U", "S", "D">>
  IN [ usd_sub |-> usd_sub,
       mxn_sub |-> mxn_sub,
       total_usd |-> RatAdd(usd_sub, IF usdBase THEN div(mxn_sub) ELSE mul(mxn_sub)),
       total_mxn |-> RatAdd(mxn_sub, IF usdBase THEN mul(usd_sub) ELSE div(usd_sub)) ]

\* The subtotals and totals of the report; the header is not read.
PdfTotals(header, entries, usd_to_mxn) ==
  LET usd_sub == SumAmounts(entries, USD)
      mxn_sub == SumAmounts(entries, MXN)
  IN [ usd_sub |-> usd_sub,
       mxn_sub |-> mxn_sub,
       total_usd |-> RatAdd(usd_sub,
                       IF IsZero(usd_to_mxn) THEN Zero ELSE RatDiv(mxn_sub, usd_to_mxn)),
       total_mxn |-> RatAdd(mxn_sub, RatMul(usd_sub, usd_to_mxn)) ]

\* The four cells of a totals table.
TotalsCells(t) ==
  << Fmt2(t.usd_sub, "USD"), Fmt2(t.mxn_sub, "MXN"),
     Fmt2(t.total_usd, "USD"), Fmt2(t.total_mxn, "MXN") >>

\* The receipt pages: enumerate from 1, an anchor and a heading per entry and
\* below them the image, or the placeholder when rendering raises.
ReceiptSections(sorted) ==
  [ idx \in 1..Len(sorted) |->
      [ anchor |-> idx,
        number |-> idx,
        entry |-> sorted[idx].id,
        body |-> CASE sorted[idx].image = "none" -> "none"
                   [] sorted[idx].image = "ok" -> "image"
                   [] OTHER -> "placeholder" ] ]

\* The report as it would be were the receipt pages laid out in the order of
\* the working set instead of the sorted order.
build_pdf_report_ReceiptsUnsorted(header, entries, usd_to_mxn) ==
  [ built |-> TRUE,
    table_data |-> ExpenseRows(sorted_entries(entries)),
    totals |-> PdfTotals(header, entries, usd_to_mxn),
    totals_table |-> TotalsCells(PdfTotals(header, entries, usd_to_mxn)),
    receipts |-> ReceiptSections(entries) ]

build_pdf_report(header, entries, usd_to_mxn) ==
  LET sorted == sorted_entries(entries)
  IN [ built |-> TRUE,
       table_data |-> ExpenseRows(sorted),
       totals |-> PdfTotals(header, entries, usd_to_mxn),
       totals_table |-> TotalsCells(PdfTotals(header, entries, usd_to_mxn)),
       receipts |-> ReceiptSections(sorted) ]

----------------------------------------------------------------------------
\* ui/components.py

\* pd.DataFrame([e.to_row() for e in entries])
DataFrame(entries) == [i \in 1..Len(entries) |-> to_row(entries[i])]

\* df.loc[df["Currency"].str.upper() == code, "Total"].fillna(0)
\*   .astype(float).sum(): a cell that is the empty string cannot be made a
\* float.
RECURSIVE ColumnSum(_, _)
ColumnSum(df, code) ==
  IF df = <<>> THEN Returned(Zero)
  ELSE LET rest == ColumnSum(Tail(df), code)
           row == Head(df)
       IN IF Upper(row.Currency) # code THEN rest
          ELSE IF row.Total.t # "num" THEN Raised("ValueError")
          ELSE IF ~rest.ok THEN rest
          ELSE Returned(RatAdd(row.Total.v, rest.val))

\* Outcome of get_download_bytes: the cells of the "Totals" sheet, or the
\* exception.
get_download_bytes(df, header) ==
  LET usd_sub == ColumnSum(df, USD)
      mxn_sub == ColumnSum(df, MXN)
      fx == IF IsZero(header.fx_usd_to_mxn) THEN RatInt(1) ELSE header.fx_usd_to_mxn
  IN IF ~usd_sub.ok THEN usd_sub
     ELSE IF ~mxn_sub.ok THEN mxn_sub
     ELSE Returned(TotalsCells(
            [ usd_sub |-> usd_sub.val,
              mxn_sub |-> mxn_sub.val,
              total_usd |-> RatAdd(usd_sub.val, RatDiv(mxn_sub.val, fx)),
              total_mxn |-> RatAdd(mxn_sub.val, RatMul(usd_sub.val, fx)) ]))

----------------------------------------------------------------------------
\* State

VARIABLES
  header,      \* the report header
  entries,     \* the working set, a sequence of entries
  usd_to_mxn,  \* the rate handed to build_pdf_report
  pdf,         \* what build_pdf_report laid out, once it ran
  downloads,   \* the outcome of get_download_bytes, once it ran
  rates,       \* the rate table last fetched
  call         \* the last call of a function of services/, with its outcome

vars == <<header, entries, usd_to_mxn, pdf, downloads, rates, call>>

NotBuilt == [built |-> FALSE]
NotExported == [done |-> FALSE]
NoCall == [fn |-> "none"]
EmptyTable == [c \in {} |-> Zero]

\* Inputs

Date1 == [y |-> 2024, m |-> 1, d |-> 5]
T0900 == <<"0", "9", ":", "0", "0">>
T1000 == <<"1", "0", ":", "0", "0">>

SomeDates == {Absent, Some(Date1), Some(DateMax)}
SomeTimes == {Absent, Some(T0900), Some(T1000)}
SomeImages == {"none", "ok", "bad"}
SomeAmounts == {Absent, Some(RatInt(100)), Some(RatInt(180))}
SomeCodes == {USD, <<"u", "s", "d">>, MXN, EUR}
\* Rates handed to build_pdf_report, and rates a validated header holds.
SomeRates == {Zero, RatInt(18), RatInt(7)}
HeaderRates == {RatInt(18), RatInt(7)}

\* Entries that differ in what the ordering and the receipt pages read.
LayoutPool ==
  { ExpenseEntry(0, d, t, Some(RatInt(100)), USD, img) :
      d \in SomeDates, t \in SomeTimes, img \in SomeImages }

\* Entries that differ in what the totals read.
AmountPool ==
  { ExpenseEntry(0, Some(Date1), Some(T0900), a, c, "ok") :
      a \in SomeAmounts, c \in SomeCodes }

\* The working sets of at most MaxEntries entries of a pool, each entry with
\* an id of its own.
WithIds(f) == [i \in DOMAIN f |-> [f[i] EXCEPT !.id = i]]

WorkingSets(pool) ==
  { WithIds(f) : f \in UNION {[1..k -> pool] : k \in 0..MaxEntries} }

\* Raw values handed to the normalisers: every string of at most MaxStrLen
\* characters of a small alphabet, and a few longer ones.
NormAlphabet == {"1", "2", ":", " ", "$", "u", "SUP2"}

ShortStrings == UNION {[1..k -> NormAlphabet] : k \in 0..MaxStrLen}

LongStrings ==
  { <<"2", "5", ":", "6", "1">>,
    <<"1", "2", ":", "3", "0", ":", "4", "5">>,
    <<"0", "9", ":", "0", "5", " ">>,
    <<"1", "2", ":", "3", "0", " ", "x">>,
    <<" ", "u", "s", "d", " ">>,
    <<"m", "x", "n">>,
    <<"1", ",", "2", "3", "4", ".", "5", "6">>,
    <<"2", "0", "2", "4", "-", "0", "3", "-", "0", "5">>,
    <<"0", "5", "/", "0", "3", "/", "2", "0", "2", "4">>,
    <<"0", "3", "/", "1", "5", "/", "2", "0", "2", "4">>,
    <<"0", "3", "-", "0", "5", "-", "2", "0", "2", "4">> }

RawInputs ==
  {RNull, RInt(0), RInt(7), RInt(1230)}
    \cup {RStr(s) : s \in ShortStrings \cup LongStrings}

\* Replies of the extraction collaborator.
Missing == [t |-> "missing"]
Field(key, v) == IF v = Missing THEN EmptyDict ELSE (key :> v)

ReplyDicts ==
  { Field("merchant_name", m) @@ Field("transaction_date", d)
      @@ Field("transaction_time", t) @@ Field("total_amount", a)
      @@ Field("currency_code", c) @@ Field("payment_method", p)
      @@ Field("category", RNull) :
      m \in {Missing, RNull, RStr(<<" ", " ">>), RStr(<<" ", "x">>)},
      d \in {Missing, RStr(<<"2", "0", "2", "4", "-", "0", "3", "-", "0", "5">>),
             RStr(<<"0", "5", "/", "0", "3", "/", "2", "0", "2", "4">>), RStr(<<"x">>)},
      t \in {Missing, RStr(<<"2", "5", ":", "6", "1">>), RStr(<<"SUP2", ":", "3", "0">>),
             RStr(<<"x">>)},
      a \in {Missing, RStr(<<"1", ",", "2", "3", "4", ".", "5", "6">>), RStr(<<"x">>),
             RInt(7)},
      c \in {Missing, RStr(<<"$">>), RStr(<<" ">>), RStr(<<"m", "x", "n">>)},
      p \in {Missing, RStr(<<"x">>)} }

JsonError == Raised("JSONDecodeError")

ReplyTexts ==
  { [loads |-> JsonError, brace |-> FALSE, inner |-> JsonError],
    [loads |-> JsonError, brace |-> TRUE, inner |-> JsonError],
    [loads |-> JsonError, brace |-> TRUE, inner |-> Returned(JOther)],
    [loads |-> Returned(JOther), brace |-> FALSE, inner |-> JsonError] }
    \cup {[loads |-> Returned(JDict(d)), brace |-> TRUE, inner |-> Returned(JDict(d))] :
            d \in ReplyDicts}
    \cup {[loads |-> JsonError, brace |-> TRUE, inner |-> Returned(JDict(d))] :
            d \in ReplyDicts}

Replies ==
  { [client |-> "error", call |-> "error", content |-> Absent],
    [client |-> "ok", call |-> "error", content |-> Absent],
    [client |-> "ok", call |-> "ok", content |-> Absent] }
    \cup {[client |-> "ok", call |-> "ok", content |-> Some(x)] : x \in ReplyTexts}

FileNames == {"receipt.png", "scan_p1.png"}

\* Currency codes and rate tables handed to fetch_rates and convert.
ConvertCodes == {USD, <<"u", "s", "d">>, MXN, EUR}
ConvertAmounts == {Zero, RatInt(100), Rat(5, 2)}
ResponseRates == {Zero, RatInt(1), RatInt(18)}
Responses ==
  {Absent} \cup
  UNION { {Some(r) : r \in [keys -> ResponseRates]} : keys \in SUBSET {USD, MXN} }

----------------------------------------------------------------------------
\* Operations

\* build_pdf_report(header, entries, usd_to_mxn, logo_path)
BuildPdfReport ==
  /\ pdf' = build_pdf_report(header, entries, usd_to_mxn)
  /\ UNCHANGED <<header, entries, usd_to_mxn, downloads, rates, call>>

\* get_download_bytes(df, header), df the table of the working set
GetDownloadBytes ==
  /\ downloads' = [done |-> TRUE, out |-> get_download_bytes(DataFrame(entries), header)]
  /\ UNCHANGED <<header, entries, usd_to_mxn, pdf, rates, call>>

\* fetch_rates(base)
FetchRates ==
  \E base \in ConvertCodes, response \in Responses :
    /\ rates' = fetch_rates(base, response)
    /\ call' = [fn |-> "fetch_rates", base |-> base, out |-> fetch_rates(base, response)]
    /\ UNCHANGED <<header, entries, usd_to_mxn, pdf, downloads>>

\* convert(amount, from_ccy, to_ccy, rates)
Convert ==
  \E amount \in ConvertAmounts, from_ccy \in ConvertCodes, to_ccy \in ConvertCodes :
    /\ call' = [ fn |-> "convert", amount |-> amount, from_ccy |-> from_ccy,
                 to_ccy |-> to_ccy, rates |-> rates,
                 out |-> convert(amount, from_ccy, to_ccy, rates) ]
    /\ UNCHANGED <<header, entries, usd_to_mxn, pdf, downloads, rates>>

\* A normaliser applied to the raw value that is waiting.
NormStr ==
  /\ call.fn = "raw"
  /\ call' = [fn |-> "_norm_str", value |-> call.value,
              out |-> Returned(_norm_str(call.value))]
  /\ UNCHANGED <<header, entries, usd_to_mxn, pdf, downloads, rates>>

NormFloat ==
  /\ call.fn = "raw"
  /\ call' = [fn |-> "_norm_float", value |-> call.value,
              out |-> Returned(_norm_float(call.value))]
  /\ UNCHANGED <<header, entries, usd_to_mxn, pdf, downloads, rates>>

NormCurrency ==
  /\ call.fn = "raw"
  /\ call' = [fn |-> "_norm_currency", value |-> call.value,
              out |-> Returned(_norm_currency(call.value))]
  /\ UNCHANGED <<header, entries, usd_to_mxn, pdf, downloads, rates>>

NormDate ==
  /\ call.fn = "raw"
  /\ call' = [fn |-> "_norm_date", value |-> call.value,
              out |-> Returned(_norm_date(call.value))]
  /\ UNCHANGED <<header, entries, usd_to_mxn, pdf, downloads, rates>>

NormTime ==
  /\ call.fn = "raw"
  /\ call' = [fn |-> "_norm_time", value |-> call.value,
              out |-> _norm_time(call.value)]
  /\ UNCHANGED <<header, entries, usd_to_mxn, pdf, downloads, rates>>

\* extract_expense_fields(image_bytes, file_name) on the reply that is
\* waiting.
ExtractExpenseFields ==
  /\ call.fn = "receipt"
  /\ call' = [ fn |-> "extract_expense_fields", reply |-> call.reply,
               file_name |-> call.file_name,
               out |-> extract_expense_fields(call.reply, call.file_name) ]
  /\ UNCHANGED <<header, entries, usd_to_mxn, pdf, downloads, rates>>

----------------------------------------------------------------------------
\* Specifications

Idle ==
  /\ pdf = NotBuilt
  /\ downloads = NotExported
  /\ rates = EmptyTable
  /\ call = NoCall

NoReport ==
  /\ header = ReportHeader(USD, RatInt(18))
  /\ entries = <<>>
  /\ usd_to_mxn = RatInt(18)

\* The report of a working set whose entries differ in date, time and image.
Init ==
  /\ header = ReportHeader(USD, RatInt(18))
  /\ usd_to_mxn = RatInt(18)
  /\ entries \in WorkingSets(LayoutPool)
  /\ Idle

Next == BuildPdfReport \/ GetDownloadBytes

Spec == Init /\ [][Next]_vars

\* The report of a working set whose entries differ in amount and currency,
\* under every header and rate.
InitTotals ==
  /\ header \in {ReportHeader(b, r) : b \in {USD, MXN}, r \in HeaderRates}
  /\ usd_to_mxn \in SomeRates
  /\ entries \in WorkingSets(AmountPool)
  /\ Idle

SpecTotals == InitTotals /\ [][Next]_vars

\* Rate tables and conversions.
InitConvert == NoReport /\ Idle

NextConvert == FetchRates \/ Convert

SpecConvert == InitConvert /\ [][NextConvert]_vars

\* The normalisers, each on its own, on a raw value drawn at the start.
InitNorm ==
  /\ NoReport
  /\ pdf = NotBuilt /\ downloads = NotExported /\ rates = EmptyTable
  /\ call \in {[fn |-> "raw", value |-> v] : v \in RawInputs}

NextNorm == NormStr \/ NormFloat \/ NormCurrency \/ NormDate \/ NormTime

SpecNorm == InitNorm /\ [][NextNorm]_vars

\* The extraction of one receipt, on a reply drawn at the start.
InitExtract ==
  /\ NoReport
  /\ pdf = NotBuilt /\ downloads = NotExported /\ rates = EmptyTable
  /\ call \in {[fn |-> "receipt", reply |-> r, file_name |-> f] :
                 r \in Replies, f \in FileNames}

NextExtract == ExtractExpenseFields

SpecExtract == InitExtract /\ [][NextExtract]_vars

----------------------------------------------------------------------------
\* Properties

Neg(a) == [n |-> -a.n, d |-> a.d]

SameCodeIgnoringCase(a, b) == Upper(a) = Upper(b)

\* The positions of the working set that count towards the subtotal of a
\* currency, and the sum of their amounts.
Counted(code) ==
  { i \in 1..Len(entries) :
      SameCodeIgnoringCase(entries[i].currency_code, code) /\ entries[i].total_amount.has }

RECURSIVE SumOfAmounts(_)
SumOfAmounts(S) ==
  IF S = {} THEN Zero
  ELSE LET i == CHOOSE i \in S : TRUE
       IN RatAdd(entries[i].total_amount.val, SumOfAmounts(S \ {i}))

Subtotal(code) == SumOfAmounts(Counted(code))

IsScenario ==
  /\ usd_to_mxn = RatInt(18)
  /\ Len(entries) = 2
  /\ entries[1].total_amount = Some(RatInt(100)) /\ entries[1].currency_code = USD
  /\ entries[2].total_amount = Some(RatInt(180)) /\ entries[2].currency_code = MXN

\* C1: the totals of build_pdf_report. subtotal-USD (subtotal-MXN) is the sum
\* of the amounts of the entries whose code is USD (MXN) whatever its case,
\* absent amounts and other currencies adding nothing; total-USD is
\* subtotal-USD + subtotal-MXN / rate, the quotient being 0 when the rate is
\* 0; total-MXN is subtotal-MXN + subtotal-USD * rate. With rate 18 and
\* [100 USD, 180 MXN] the four values are 100, 180, 110 and 1980.
C1_Totals ==
  pdf.built =>
    LET t == pdf.totals
        us == Subtotal(USD)
        mx == Subtotal(MXN)
    IN /\ t.usd_sub = us
       /\ t.mxn_sub = mx
       /\ IF IsZero(usd_to_mxn)
          THEN t.total_usd = us
          ELSE RatMul(RatAdd(t.total_usd, Neg(us)), usd_to_mxn) = mx
       /\ t.total_mxn = RatAdd(mx, RatMul(us, usd_to_mxn))
       /\ IsScenario =>
            t = [ usd_sub |-> RatInt(100), mxn_sub |-> RatInt(180),
                  total_usd |-> RatInt(110), total_mxn |-> RatInt(1980) ]

\* A report built with rate 0 from a lower-case "usd" entry and an MXN entry.
C1_Witness ==
  /\ pdf.built
  /\ IsZero(usd_to_mxn)
  /\ Len(entries) = 2
  /\ entries[1].currency_code = <<"u", "s", "d">> /\ entries[1].total_amount.has
  /\ entries[2].currency_code = MXN /\ entries[2].total_amount.has

Other(code) == IF code = USD THEN MXN ELSE USD
TotalIn(code) == IF code = USD THEN pdf.totals.total_usd ELSE pdf.totals.total_mxn

C3_SheetEqualsPdf ==
  (pdf.built /\ downloads.done /\ usd_to_mxn = header.fx_usd_to_mxn) =>
    /\ downloads.out.ok
    /\ downloads.out.val = pdf.totals_table

\* C4: with both codes in the table and different, a rate of 0 for the source
\* or for the target makes convert return the amount unchanged.
C4_ZeroRateIsIdentity ==
  call.fn = "convert" =>
    LET f == Upper(call.from_ccy)
        t == Upper(call.to_ccy)
    IN ( /\ f \in DOMAIN call.rates /\ t \in DOMAIN call.rates /\ f # t
         /\ IsZero(call.rates[f]) \/ IsZero(call.rates[t]) )
       => call.out = Returned(call.amount)

\* C5: convert returns the amount unchanged when the two codes are equal
\* whatever their case or one of them is not in the table; in every other
\* case it returns amount / rate[source] * rate[target].
C5_Convert ==
  call.fn = "convert" =>
    LET f == Upper(call.from_ccy)
        t == Upper(call.to_ccy)
    IN IF SameCodeIgnoringCase(call.from_ccy, call.to_ccy)
          \/ f \notin DOMAIN call.rates \/ t \notin DOMAIN call.rates
       THEN call.out = Returned(call.amount)
       ELSE /\ call.out.ok
            /\ ~IsZero(call.rates[f]) =>
                 RatMul(call.out.val, call.rates[f]) = RatMul(call.amount, call.rates[t])

ResultKeys ==
  { "merchant_name", "transaction_date", "transaction_time", "total_amount",
    "currency_code", "payment_method", "category", "source_name" }

\* C6: whatever the collaborator does, extract_expense_fields returns a
\* record of the eight keys whose source_name is the file name; a field the
\* reply does not give is absent and the currency code is then USD.
C6_AlwaysReturnsRecord ==
  call.fn = "extract_expense_fields" =>
    /\ call.out.ok
    /\ DOMAIN call.out.val = ResultKeys
    /\ call.out.val.source_name = call.file_name
    /\ \A k \in {"merchant_name", "transaction_date", "transaction_time",
                 "total_amount", "payment_method", "category"} :
         Get(ReplyData(call.reply), k) = RNull => call.out.val[k] = Absent
    /\ Get(ReplyData(call.reply), "currency_code") = RNull =>
         call.out.val.currency_code = USD

\* C7: in the expense table every row without a date is below every row with
\* a date.
C7_AbsentDateLast ==
  pdf.built =>
    \A i, j \in 1..Len(pdf.table_data) :
      (~pdf.table_data[i].date.has /\ pdf.table_data[j].date.has) => j < i

EntryOf(id) == CHOOSE e \in {entries[i] : i \in 1..Len(entries)} : e.id = id

\* C8: the report has one receipt section per entry; row N of the table and
\* section N are the same entry, the N-th of the sorted order, and the link of
\* row N targets the anchor of section N, with or without an image and
\* whether or not the image renders.
C8_SectionsMatchRows ==
  pdf.built =>
    /\ Len(pdf.table_data) = Len(entries)
    /\ Len(pdf.receipts) = Len(entries)
    /\ {pdf.receipts[n].entry : n \in 1..Len(pdf.receipts)}
         = {entries[i].id : i \in 1..Len(entries)}
    /\ \A n \in 1..Len(entries) :
         /\ pdf.table_data[n].entry = pdf.receipts[n].entry
         /\ pdf.receipts[n].number = n
         /\ pdf.table_data[n].href = pdf.receipts[n].anchor
    /\ \A n \in 1..(Len(entries) - 1) :
         ~KeyLess(SortKey(EntryOf(pdf.table_data[n + 1].entry)),
                  SortKey(EntryOf(pdf.table_data[n].entry)))

\* A report of two entries that the ordering swaps, one without an image and
\* one whose image does not render.
C8_Witness ==
  /\ pdf.built
  /\ Len(entries) = 2
  /\ pdf.table_data[1].entry = 2
  /\ pdf.receipts[1].body = "placeholder"
  /\ pdf.receipts[2].body = "none"

IsClock(s) ==
  /\ Len(s) = 5 /\ s[3] = ":"
  /\ \A i \in {1, 2, 4, 5} : IsDecimal(s[i])
  /\ DecimalValue(SubSeq(s, 1, 2), 0) \in 0..23
  /\ DecimalValue(SubSeq(s, 4, 5), 0) \in 0..59

\* The first two colon-delimited segments of a raw value, when it has two
\* and both are numeric.
NumericPair(v) ==
  /\ ~Falsy(v)
  /\ Len(Split(Strip(StrOf(v)), ":")) >= 2
  /\ IsDigit(Split(Strip(StrOf(v)), ":")[1])
  /\ IsDigit(Split(Strip(StrOf(v)), ":")[2])

\* C9: _norm_time never raises; it returns absent or "HH:MM" with the hour
\* in 0..23 and the minute in 0..59; it returns a time exactly when the input
\* has two leading numeric segments, and "25:61" gives "01:01".
C9_NormTimeTotal ==
  call.fn = "_norm_time" =>
    /\ call.out.ok
    /\ call.out.val.has => IsClock(call.out.val.val)
    /\ call.out.val.has <=> NumericPair(call.value)
    /\ call.value = RStr(<<"2", "5", ":", "6", "1">>) =>
         call.out.val = Some(<<"0", "1", ":", "0", "1">>)

IsBlankOrSingle(v) == Falsy(v) \/ Len(Strip(StrOf(v))) <= 1

\* C10: _norm_currency never returns the empty string: it returns "USD" for
\* a null, empty, blank or one-character input and otherwise the input
\* trimmed and in upper case.
C10_CurrencyNeverEmpty ==
  call.fn = "_norm_currency" =>
    /\ call.out.val # <<>>
    /\ IsBlankOrSingle(call.value) => call.out.val = USD
    /\ ~IsBlankOrSingle(call.value) => call.out.val = Strip(Upper(StrOf(call.value)))

====
